---------------------------- MODULE Spec2Model ----------------------------
(***************************************************************************)
(* A model of the AWS IoT topic codecs (shadow, jobs, defender, tunneling),*)
(* the topic classifier and the exponential backoff generator.             *)
(*                                                                         *)
(* A Rust &str is modelled as the sequence of its characters, each a       *)
(* one-character string; every character used is ASCII, so the byte length *)
(* s.len() is Len(s).  A Result is a record with kind "Ok", "Err" or       *)
(* "Panic" (the call aborted); an Option is <<>> for None and <<v>> for    *)
(* Some(v).                                                                *)
(***************************************************************************)
EXTENDS Integers, Sequences, FiniteSets, TLC

VARIABLES
    pc,        \* position of the calling program
    asm,       \* the last assemble call: function, arguments and result
    wire,      \* the topic string in flight, as [text, fill]
    parse,     \* the last parse call: function and result
    check,     \* the last validator call: function, argument and result
    bfa,       \* the BackoffAlgorithm instance
    bret,      \* what the last call of next() returned
    calls,     \* how many times next() has been called on bfa
    checked    \* the build's overflow checks: TRUE (debug) or FALSE (release)

vars == <<pc, asm, wire, parse, check, bfa, bret, calls, checked>>

---------------------------------------------------------------------------
(* Results and options                                                     *)

None == <<>>

Some(v) == <<v>>

Ok(v) == [kind |-> "Ok", err |-> "", val |-> v]

Err(e) == [kind |-> "Err", err |-> e, val |-> <<>>]

Panic == [kind |-> "Panic", err |-> "", val |-> <<>>]

IsOk(r) == r.kind = "Ok"

IsErr(r, e) == r.kind = "Err" /\ r.err = e

Error == {"FAIL", "MqttTopicFailed", "ThingnameParseFailed", "MessageTypeParseFailed",
          "RootParseFailed", "ShadownameParseFailed", "JobsIdParseFailed", "NoMatch"}

---------------------------------------------------------------------------
(* Strings                                                                 *)

Rep(c, n) == [i \in 1..n |-> c]

StartsWith(s, pre) ==
    /\ Len(pre) <= Len(s)
    /\ \A i \in 1..Len(pre) : s[i] = pre[i]

Drop(s, n) == SubSeq(s, n + 1, Len(s))

HasSlash(s) == \E i \in 1..Len(s) : s[i] = "/"

\* s.find('/'): the 0-based offset of the first '/', for a string that has one
FindSlash(s) == (CHOOSE i \in 1..Len(s) : s[i] = "/" /\ \A j \in 1..(i - 1) : s[j] # "/") - 1

RECURSIVE Split(_)
\* s.split('/'): the segments between the slashes; always at least one
Split(s) ==
    IF ~HasSlash(s) THEN <<s>>
    ELSE LET mid == FindSlash(s)
         IN  <<SubSeq(s, 1, mid)>> \o Split(Drop(s, mid + 1))

Digit == {"0", "1", "2", "3", "4", "5", "6", "7", "8", "9"}

Upper == {"A", "B", "C", "D", "E", "F", "G", "H", "I", "J", "K", "L", "M",
          "N", "O", "P", "Q", "R", "S", "T", "U", "V", "W", "X", "Y", "Z"}

Lower == {"a", "b", "c", "d", "e", "f", "g", "h", "i", "j", "k", "l", "m",
          "n", "o", "p", "q", "r", "s", "t", "u", "v", "w", "x", "y", "z"}

---------------------------------------------------------------------------
(* common.rs                                                               *)

MQTT_TOPIC_LENGTH_MAX == 65535

THINGNAME_MAX_LENGTH == 128

SHADOW_NAME_LENGTH_MAX == 64

JOBID_MAX_LENGTH == 64

TUNNEL_TOPIC_MAX_LENGTH == THINGNAME_MAX_LENGTH + 32

DEFENDER_TOPIC_MAX_LENGTH == THINGNAME_MAX_LENGTH + 32

JOBS_TOPIC_MAX_LENGTH == THINGNAME_MAX_LENGTH + JOBID_MAX_LENGTH + 32

SHADOW_TOPIC_MAX_LENGTH == THINGNAME_MAX_LENGTH + SHADOW_NAME_LENGTH_MAX + 32

AWS_THINGS_PREFIX == <<"$", "a", "w", "s", "/", "t", "h", "i", "n", "g", "s", "/">>

SUFFIX_ACCEPTED == <<"/", "a", "c", "c", "e", "p", "t", "e", "d">>

SUFFIX_REJECTED == <<"/", "r", "e", "j", "e", "c", "t", "e", "d">>

ACCEPTED == <<"a", "c", "c", "e", "p", "t", "e", "d">>

REJECTED == <<"r", "e", "j", "e", "c", "t", "e", "d">>

\* The bridge literals the codecs and the classifier import from common
SHADOW_API_BRIDGE == <<"/", "s", "h", "a", "d", "o", "w", "/">>

NAMED_SHADOW_API_BRIDGE == <<"/", "s", "h", "a", "d", "o", "w", "/", "n", "a", "m", "e", "/">>

JOBS_API_BRIDGE == <<"/", "j", "o", "b", "s", "/">>

DEFENDER_API_BRIDGE ==
    <<"/", "d", "e", "f", "e", "n", "d", "e", "r", "/", "m", "e", "t", "r", "i", "c", "s", "/">>

TUNNELS_API_BRIDGE == <<"/", "t", "u", "n", "n", "e", "l", "s", "/">>

is_valid_param(s, max_len) ==
    IF Len(s) # 0 /\ Len(s) < max_len THEN Ok(<<>>) ELSE Err("FAIL")

is_valid_mqtt_topic(mqtt_topic) ==
    IF IsOk(is_valid_param(mqtt_topic, MQTT_TOPIC_LENGTH_MAX)) THEN Ok(<<>>)
    ELSE Err("MqttTopicFailed")

is_valid_prefix(s, pre) ==
    IF StartsWith(s, pre) THEN Ok(Drop(s, Len(pre))) ELSE Err("NoMatch")

NameChar == {"-", "_", ":"} \cup Digit \cup Upper \cup Lower

is_valid_name(name, len) ==
    IF ~IsOk(is_valid_param(name, len)) THEN is_valid_param(name, len)
    ELSE IF \A i \in 1..Len(name) : name[i] \in NameChar THEN Ok(<<>>)
    ELSE Err("FAIL")

\* is_valid_thing_name without the map_err: the generic error gets through
is_valid_thing_name_unmapped(thing_name) == is_valid_name(thing_name, THINGNAME_MAX_LENGTH)

is_valid_thing_name(thing_name) ==
    IF IsOk(is_valid_name(thing_name, THINGNAME_MAX_LENGTH)) THEN Ok(<<>>)
    ELSE Err("ThingnameParseFailed")

is_valid_shadow_name(shadow_name) ==
    IF IsOk(is_valid_name(shadow_name, SHADOW_NAME_LENGTH_MAX)) THEN Ok(<<>>)
    ELSE Err("ShadownameParseFailed")

\* is_valid_bridge answering with the prefix check's error
is_valid_bridge_no_match(s, bridge) ==
    IF StartsWith(s, bridge) THEN Ok(Drop(s, Len(bridge))) ELSE Err("NoMatch")

is_valid_bridge(s, bridge) ==
    IF StartsWith(s, bridge) THEN Ok(Drop(s, Len(bridge))) ELSE Err("RootParseFailed")

JobIdChar == {"-", "_"} \cup Digit \cup Upper \cup Lower

is_valid_job_id(job_id) ==
    IF ~IsOk(is_valid_param(job_id, JOBID_MAX_LENGTH))
    THEN is_valid_param(job_id, JOBID_MAX_LENGTH)
    ELSE IF \A i \in 1..Len(job_id) : job_id[i] \in JobIdChar THEN Ok(<<>>)
    ELSE Err("JobsIdParseFailed")

---------------------------------------------------------------------------
(* arrayvec: the fixed-capacity string and vector the codecs build in      *)

\* ArrayString<CAP>::push_str: panics when the capacity would be exceeded.
\* A buffer is <<>> once a push has panicked, and <<text>> otherwise.
push_str(buf, s, cap) ==
    IF buf = None THEN None
    ELSE IF Len(buf[1]) + Len(s) > cap THEN None
    ELSE Some(buf[1] \o s)

new_string == Some(<<>>)

\* Ok(s) of a function that returns the buffer it pushed into
OkBuf(buf) == IF buf = None THEN Panic ELSE Ok(buf[1])

\* ArrayVec<&str, CAP>: s.split('/').collect() panics past the capacity
SPLIT_CAPACITY == 16

collect(s) == IF Len(Split(s)) > SPLIT_CAPACITY THEN None ELSE Some(Split(s))

\* ArrayString::<CAP>::from(s).unwrap(): panics when s is longer than CAP
from_unwrap(s, cap) == IF Len(s) > cap THEN None ELSE Some(s)

---------------------------------------------------------------------------
(* shadow.rs                                                               *)

OP_GET == <<"g", "e", "t">>

OP_DELETE == <<"d", "e", "l", "e", "t", "e">>

OP_UPDATE == <<"u", "p", "d", "a", "t", "e">>

SUFFIX_DOCUMENTS == <<"/", "d", "o", "c", "u", "m", "e", "n", "t", "s">>

SUFFIX_DELTA == <<"/", "d", "e", "l", "t", "a">>

ShadowTopic == {"Get", "GetAccepted", "GetRejected", "Delete", "DeleteAccepted",
                "DeleteRejected", "Update", "UpdateAccepted", "UpdateRejected",
                "UpdateDocuments", "UpdateDelta"}

shadow_op(topic_type) ==
    IF topic_type \in {"Get", "GetAccepted", "GetRejected"} THEN OP_GET
    ELSE IF topic_type \in {"Delete", "DeleteAccepted", "DeleteRejected"} THEN OP_DELETE
    ELSE OP_UPDATE

shadow_suffix(topic_type) ==
    IF topic_type \in {"GetAccepted", "DeleteAccepted", "UpdateAccepted"} THEN SUFFIX_ACCEPTED
    ELSE IF topic_type \in {"GetRejected", "DeleteRejected", "UpdateRejected"}
         THEN SUFFIX_REJECTED
    ELSE IF topic_type = "UpdateDocuments" THEN SUFFIX_DOCUMENTS
    ELSE IF topic_type = "UpdateDelta" THEN SUFFIX_DELTA
    ELSE <<>>

\* named is None or Some(shadow_name)
shadow_assemble_topic(topic_type, thing_name, named) ==
    IF ~IsOk(is_valid_thing_name(thing_name)) THEN is_valid_thing_name(thing_name)
    ELSE
    LET s0 == push_str(push_str(new_string, AWS_THINGS_PREFIX, SHADOW_TOPIC_MAX_LENGTH),
                       thing_name, SHADOW_TOPIC_MAX_LENGTH)
    IN  IF named = None
        THEN LET s1 == push_str(s0, SHADOW_API_BRIDGE, SHADOW_TOPIC_MAX_LENGTH)
                 s2 == push_str(s1, shadow_op(topic_type), SHADOW_TOPIC_MAX_LENGTH)
                 s3 == push_str(s2, shadow_suffix(topic_type), SHADOW_TOPIC_MAX_LENGTH)
             IN  OkBuf(s3)
        ELSE LET shadow_name == named[1]
             IN  IF ~IsOk(is_valid_shadow_name(shadow_name))
                 THEN is_valid_shadow_name(shadow_name)
                 ELSE
                 LET s1 == push_str(s0, NAMED_SHADOW_API_BRIDGE, SHADOW_TOPIC_MAX_LENGTH)
                     s2 == push_str(s1, shadow_name, SHADOW_TOPIC_MAX_LENGTH)
                     s3 == push_str(s2, <<"/">>, SHADOW_TOPIC_MAX_LENGTH)
                     s4 == push_str(s3, shadow_op(topic_type), SHADOW_TOPIC_MAX_LENGTH)
                     s5 == push_str(s4, shadow_suffix(topic_type), SHADOW_TOPIC_MAX_LENGTH)
                 IN  OkBuf(s5)

\* suffix is None or Some(token)
find_message_type(op, suffix) ==
    IF op = OP_GET /\ suffix = None THEN Ok("Get")
    ELSE IF op = OP_GET /\ suffix = Some(ACCEPTED) THEN Ok("GetAccepted")
    ELSE IF op = OP_GET /\ suffix = Some(REJECTED) THEN Ok("GetRejected")
    ELSE IF op = OP_DELETE /\ suffix = None THEN Ok("Delete")
    ELSE IF op = OP_DELETE /\ suffix = Some(ACCEPTED) THEN Ok("DeleteAccepted")
    ELSE IF op = OP_DELETE /\ suffix = Some(REJECTED) THEN Ok("DeleteRejected")
    ELSE IF op = OP_UPDATE /\ suffix = None THEN Ok("Update")
    ELSE IF op = OP_UPDATE /\ suffix = Some(ACCEPTED) THEN Ok("UpdateAccepted")
    ELSE IF op = OP_UPDATE /\ suffix = Some(REJECTED) THEN Ok("UpdateRejected")
    ELSE IF op = OP_UPDATE /\ suffix = Some(<<"d", "o", "c", "u", "m", "e", "n", "t", "s">>)
         THEN Ok("UpdateDocuments")
    ELSE IF op = OP_UPDATE /\ suffix = Some(<<"d", "e", "l", "t", "a">>) THEN Ok("UpdateDelta")
    ELSE Err("MessageTypeParseFailed")

ThingShadow(thing_name, shadow_name, shadow_op_) ==
    [thing_name |-> thing_name, shadow_name |-> shadow_name, shadow_op |-> shadow_op_]

\* The arms of match_topic, for the segments v after the bridge
shadow_match_tokens(thing_name, v) ==
    IF Len(v) = 4 THEN
        IF ~IsOk(is_valid_shadow_name(v[2])) THEN is_valid_shadow_name(v[2])
        ELSE IF ~IsOk(find_message_type(v[3], Some(v[4])))
             THEN find_message_type(v[3], Some(v[4]))
        ELSE Ok(ThingShadow(thing_name, Some(v[2]), find_message_type(v[3], Some(v[4])).val))
    ELSE IF Len(v) = 3 THEN
        IF ~IsOk(is_valid_shadow_name(v[2])) THEN is_valid_shadow_name(v[2])
        ELSE IF ~IsOk(find_message_type(v[3], None)) THEN find_message_type(v[3], None)
        ELSE Ok(ThingShadow(thing_name, Some(v[2]), find_message_type(v[3], None).val))
    ELSE IF Len(v) = 2 THEN
        IF ~IsOk(find_message_type(v[1], Some(v[2])))
        THEN find_message_type(v[1], Some(v[2]))
        ELSE Ok(ThingShadow(thing_name, None, find_message_type(v[1], Some(v[2])).val))
    ELSE IF Len(v) = 1 THEN
        IF ~IsOk(find_message_type(v[1], None)) THEN find_message_type(v[1], None)
        ELSE Ok(ThingShadow(thing_name, None, find_message_type(v[1], None).val))
    ELSE Err("NoMatch")

shadow_match_topic(topic) ==
    IF ~IsOk(is_valid_mqtt_topic(topic)) THEN is_valid_mqtt_topic(topic)
    ELSE IF ~IsOk(is_valid_prefix(topic, AWS_THINGS_PREFIX))
         THEN is_valid_prefix(topic, AWS_THINGS_PREFIX)
    ELSE
    LET s == is_valid_prefix(topic, AWS_THINGS_PREFIX).val
    IN  IF ~HasSlash(s) THEN Err("NoMatch")
        ELSE
        LET mid == FindSlash(s)
            thing_name == SubSeq(s, 1, mid)
            rest == Drop(s, mid)
        IN  IF ~IsOk(is_valid_thing_name(thing_name)) THEN is_valid_thing_name(thing_name)
            ELSE IF ~IsOk(is_valid_bridge(rest, SHADOW_API_BRIDGE))
                 THEN is_valid_bridge(rest, SHADOW_API_BRIDGE)
            ELSE LET v == collect(is_valid_bridge(rest, SHADOW_API_BRIDGE).val)
                 IN  IF v = None THEN Panic ELSE shadow_match_tokens(thing_name, v[1])

---------------------------------------------------------------------------
(* defender.rs                                                             *)

API_BRIDGE == <<"/", "d", "e", "f", "e", "n", "d", "e", "r", "/", "m", "e", "t", "r", "i", "c", "s", "/">>

API_JSON_FORMAT == <<"j", "s", "o", "n">>

API_CBOR_FORMAT == <<"c", "b", "o", "r">>

DefenderTopic == {"JsonReportPublish", "JsonReportAccepted", "JsonReportRejected",
                  "CborReportPublish", "CborReportAccepted", "CborReportRejected"}

defender_op(api) ==
    IF api \in {"JsonReportPublish", "JsonReportAccepted", "JsonReportRejected"}
    THEN API_JSON_FORMAT
    ELSE API_CBOR_FORMAT

defender_suffix(topic_type) ==
    IF topic_type \in {"JsonReportAccepted", "CborReportAccepted"} THEN SUFFIX_ACCEPTED
    ELSE IF topic_type \in {"JsonReportRejected", "CborReportRejected"} THEN SUFFIX_REJECTED
    ELSE <<>>

defender_get_topic(thing_name, api) ==
    IF ~IsOk(is_valid_thing_name(thing_name)) THEN is_valid_thing_name(thing_name)
    ELSE
    LET s1 == push_str(new_string, AWS_THINGS_PREFIX, DEFENDER_TOPIC_MAX_LENGTH)
        s2 == push_str(s1, thing_name, DEFENDER_TOPIC_MAX_LENGTH)
        s3 == push_str(s2, API_BRIDGE, DEFENDER_TOPIC_MAX_LENGTH)
        s4 == push_str(s3, defender_op(api), DEFENDER_TOPIC_MAX_LENGTH)
        s5 == push_str(s4, defender_suffix(api), DEFENDER_TOPIC_MAX_LENGTH)
    IN  OkBuf(s5)

ThingDefender(thing_name, api) == [thing_name |-> thing_name, api |-> api]

\* The arms of match_topic, for the segments v after the bridge
defender_match_tokens(thing_name, v) ==
    IF Len(v) = 2 THEN
        IF v[1] = API_JSON_FORMAT /\ v[2] = ACCEPTED
        THEN Ok(ThingDefender(thing_name, "JsonReportAccepted"))
        ELSE IF v[1] = API_JSON_FORMAT /\ v[2] = REJECTED
        THEN Ok(ThingDefender(thing_name, "JsonReportRejected"))
        ELSE IF v[1] = API_CBOR_FORMAT /\ v[2] = ACCEPTED
        THEN Ok(ThingDefender(thing_name, "CborReportAccepted"))
        ELSE IF v[1] = API_CBOR_FORMAT /\ v[2] = REJECTED
        THEN Ok(ThingDefender(thing_name, "CborReportRejected"))
        ELSE Err("NoMatch")
    ELSE Err("NoMatch")

defender_match_topic(topic) ==
    IF ~IsOk(is_valid_mqtt_topic(topic)) THEN is_valid_mqtt_topic(topic)
    ELSE IF ~IsOk(is_valid_prefix(topic, AWS_THINGS_PREFIX))
         THEN is_valid_prefix(topic, AWS_THINGS_PREFIX)
    ELSE
    LET s == is_valid_prefix(topic, AWS_THINGS_PREFIX).val
    IN  IF ~HasSlash(s) THEN Err("FAIL")
        ELSE
        LET mid == FindSlash(s)
            thing_name == SubSeq(s, 1, mid)
            rest == Drop(s, mid)
        IN  IF ~IsOk(is_valid_thing_name(thing_name)) THEN is_valid_thing_name(thing_name)
            ELSE IF ~IsOk(is_valid_bridge(rest, API_BRIDGE))
                 THEN is_valid_bridge(rest, API_BRIDGE)
            ELSE LET v == collect(is_valid_bridge(rest, API_BRIDGE).val)
                 IN  IF v = None THEN Panic ELSE defender_match_tokens(thing_name, v[1])

---------------------------------------------------------------------------
(* jobs.rs                                                                 *)

API_JOBSCHANGED == <<"n", "o", "t", "i", "f", "y">>

API_NEXTJOBCHANGED == <<"n", "o", "t", "i", "f", "y", "-", "n", "e", "x", "t">>

API_GETPENDING == <<"g", "e", "t">>

API_STARTNEXT == <<"s", "t", "a", "r", "t", "-", "n", "e", "x", "t">>

API_DESCRIBE == <<"g", "e", "t">>

API_UPDATE == <<"u", "p", "d", "a", "t", "e">>

API_JOBID_NEXT == <<"$", "n", "e", "x", "t">>

JobsTopic == {"JobsChanged", "NextJobChanged", "GetPendingSuccess", "GetPendingFailed",
              "StartNextSuccess", "StartNextFailed", "DescribeSuccess", "DescribeFailed",
              "UpdateSuccess", "UpdateFailed"}

jobs_id(api) ==
    IF api \in {"DescribeSuccess", "DescribeFailed", "UpdateSuccess", "UpdateFailed"}
    THEN <<"+", "/">>
    ELSE <<>>

\* jobs_op with the Describe rows copied from the Update rows
jobs_op_describe_as_update(api) ==
    CASE api = "JobsChanged" -> API_JOBSCHANGED
      [] api = "NextJobChanged" -> API_NEXTJOBCHANGED
      [] api = "GetPendingSuccess" -> API_GETPENDING
      [] api = "GetPendingFailed" -> API_GETPENDING
      [] api = "StartNextSuccess" -> API_STARTNEXT
      [] api = "StartNextFailed" -> API_STARTNEXT
      [] api = "DescribeSuccess" -> API_UPDATE
      [] api = "DescribeFailed" -> API_UPDATE
      [] api = "UpdateSuccess" -> API_UPDATE
      [] api = "UpdateFailed" -> API_UPDATE

jobs_op(api) ==
    CASE api = "JobsChanged" -> API_JOBSCHANGED
      [] api = "NextJobChanged" -> API_NEXTJOBCHANGED
      [] api = "GetPendingSuccess" -> API_GETPENDING
      [] api = "GetPendingFailed" -> API_GETPENDING
      [] api = "StartNextSuccess" -> API_STARTNEXT
      [] api = "StartNextFailed" -> API_STARTNEXT
      [] api = "DescribeSuccess" -> API_DESCRIBE
      [] api = "DescribeFailed" -> API_DESCRIBE
      [] api = "UpdateSuccess" -> API_UPDATE
      [] api = "UpdateFailed" -> API_UPDATE

jobs_suffix(topic_type) ==
    IF topic_type \in {"GetPendingSuccess", "StartNextSuccess", "DescribeSuccess",
                       "UpdateSuccess"}
    THEN SUFFIX_ACCEPTED
    ELSE IF topic_type \in {"GetPendingFailed", "StartNextFailed", "DescribeFailed",
                            "UpdateFailed"}
    THEN SUFFIX_REJECTED
    ELSE <<>>

jobs_get_topic(thing_name, api) ==
    IF ~IsOk(is_valid_thing_name(thing_name)) THEN is_valid_thing_name(thing_name)
    ELSE
    LET s1 == push_str(new_string, AWS_THINGS_PREFIX, JOBS_TOPIC_MAX_LENGTH)
        s2 == push_str(s1, thing_name, JOBS_TOPIC_MAX_LENGTH)
        s3 == push_str(s2, JOBS_API_BRIDGE, JOBS_TOPIC_MAX_LENGTH)
        s4 == push_str(s3, jobs_id(api), JOBS_TOPIC_MAX_LENGTH)
        s5 == push_str(s4, jobs_op(api), JOBS_TOPIC_MAX_LENGTH)
        s6 == push_str(s5, jobs_suffix(api), JOBS_TOPIC_MAX_LENGTH)
    IN  OkBuf(s6)

ThingJobs(thing_name, api, id) == [thing_name |-> thing_name, api |-> api, id |-> id]

\* The arms of match_topic, for the segments v after the bridge
jobs_match_tokens(thing_name, v) ==
    IF Len(v) = 1 THEN
        IF v[1] = API_JOBSCHANGED THEN Ok(ThingJobs(thing_name, "JobsChanged", None))
        ELSE Ok(ThingJobs(thing_name, "NextJobChanged", None))
    ELSE IF Len(v) = 2 THEN
        IF v[1] = API_GETPENDING /\ v[2] = ACCEPTED
        THEN Ok(ThingJobs(thing_name, "GetPendingSuccess", None))
        ELSE IF v[1] = API_GETPENDING /\ v[2] = REJECTED
        THEN Ok(ThingJobs(thing_name, "GetPendingFailed", None))
        ELSE IF v[1] = API_STARTNEXT /\ v[2] = ACCEPTED
        THEN Ok(ThingJobs(thing_name, "StartNextSuccess", None))
        ELSE IF v[1] = API_STARTNEXT /\ v[2] = REJECTED
        THEN Ok(ThingJobs(thing_name, "StartNextFailed", None))
        ELSE Err("NoMatch")
    ELSE IF Len(v) = 3 THEN
        LET api == IF v[2] = API_DESCRIBE /\ v[3] = ACCEPTED THEN Some("DescribeSuccess")
                   ELSE IF v[2] = API_DESCRIBE /\ v[3] = REJECTED THEN Some("DescribeFailed")
                   ELSE IF v[2] = API_UPDATE /\ v[3] = ACCEPTED THEN Some("UpdateSuccess")
                   ELSE IF v[2] = API_UPDATE /\ v[3] = REJECTED THEN Some("UpdateFailed")
                   ELSE None
            jobs_id_ == from_unwrap(v[1], JOBID_MAX_LENGTH)
        IN  IF api = None THEN Err("NoMatch")
            ELSE IF jobs_id_ = None THEN Panic
            ELSE Ok(ThingJobs(thing_name, api[1], jobs_id_))
    ELSE Err("NoMatch")

jobs_match_topic(topic) ==
    IF ~IsOk(is_valid_mqtt_topic(topic)) THEN is_valid_mqtt_topic(topic)
    ELSE IF ~IsOk(is_valid_prefix(topic, AWS_THINGS_PREFIX))
         THEN is_valid_prefix(topic, AWS_THINGS_PREFIX)
    ELSE
    LET s == is_valid_prefix(topic, AWS_THINGS_PREFIX).val
    IN  IF ~HasSlash(s) THEN Err("FAIL")
        ELSE
        LET mid == FindSlash(s)
            thing_name == SubSeq(s, 1, mid)
            rest == Drop(s, mid)
        IN  IF ~IsOk(is_valid_thing_name(thing_name)) THEN is_valid_thing_name(thing_name)
            ELSE IF ~IsOk(is_valid_bridge(rest, JOBS_API_BRIDGE))
                 THEN is_valid_bridge(rest, JOBS_API_BRIDGE)
            ELSE LET v == collect(is_valid_bridge(rest, JOBS_API_BRIDGE).val)
                 IN  IF v = None THEN Panic ELSE jobs_match_tokens(thing_name, v[1])

get_pending(thing_name) ==
    IF ~IsOk(is_valid_thing_name(thing_name)) THEN is_valid_thing_name(thing_name)
    ELSE
    LET s1 == push_str(new_string, AWS_THINGS_PREFIX, THINGNAME_MAX_LENGTH)
        s2 == push_str(s1, thing_name, THINGNAME_MAX_LENGTH)
        s3 == push_str(s2, JOBS_API_BRIDGE, THINGNAME_MAX_LENGTH)
        s4 == push_str(s3, API_GETPENDING, THINGNAME_MAX_LENGTH)
    IN  OkBuf(s4)

start_next(thing_name) ==
    IF ~IsOk(is_valid_thing_name(thing_name)) THEN is_valid_thing_name(thing_name)
    ELSE
    LET s1 == push_str(new_string, AWS_THINGS_PREFIX, THINGNAME_MAX_LENGTH)
        s2 == push_str(s1, thing_name, THINGNAME_MAX_LENGTH)
        s3 == push_str(s2, JOBS_API_BRIDGE, THINGNAME_MAX_LENGTH)
        s4 == push_str(s3, API_STARTNEXT, THINGNAME_MAX_LENGTH)
    IN  OkBuf(s4)

describe(thing_name, id) ==
    IF ~IsOk(is_valid_thing_name(thing_name)) THEN is_valid_thing_name(thing_name)
    ELSE IF id # API_JOBID_NEXT /\ ~IsOk(is_valid_job_id(id)) THEN is_valid_job_id(id)
    ELSE
    LET s1 == push_str(new_string, AWS_THINGS_PREFIX, THINGNAME_MAX_LENGTH)
        s2 == push_str(s1, thing_name, THINGNAME_MAX_LENGTH)
        s3 == push_str(s2, JOBS_API_BRIDGE, THINGNAME_MAX_LENGTH)
        s4 == push_str(s3, id, THINGNAME_MAX_LENGTH)
        s5 == push_str(s4, <<"/">>, THINGNAME_MAX_LENGTH)
        s6 == push_str(s5, API_DESCRIBE, THINGNAME_MAX_LENGTH)
    IN  OkBuf(s6)

update(thing_name, id) ==
    IF ~IsOk(is_valid_thing_name(thing_name)) THEN is_valid_thing_name(thing_name)
    ELSE IF ~IsOk(is_valid_job_id(id)) THEN is_valid_job_id(id)
    ELSE
    LET s1 == push_str(new_string, AWS_THINGS_PREFIX, THINGNAME_MAX_LENGTH)
        s2 == push_str(s1, thing_name, THINGNAME_MAX_LENGTH)
        s3 == push_str(s2, JOBS_API_BRIDGE, THINGNAME_MAX_LENGTH)
        s4 == push_str(s3, id, THINGNAME_MAX_LENGTH)
        s5 == push_str(s4, <<"/">>, THINGNAME_MAX_LENGTH)
        s6 == push_str(s5, API_UPDATE, THINGNAME_MAX_LENGTH)
    IN  OkBuf(s6)

---------------------------------------------------------------------------
(* tunneling.rs                                                            *)

API_CHANGED == <<"n", "o", "t", "i", "f", "y">>

tunneling_match_topic(topic) ==
    IF ~IsOk(is_valid_mqtt_topic(topic)) THEN is_valid_mqtt_topic(topic)
    ELSE IF ~IsOk(is_valid_prefix(topic, AWS_THINGS_PREFIX))
         THEN is_valid_prefix(topic, AWS_THINGS_PREFIX)
    ELSE
    LET s == is_valid_prefix(topic, AWS_THINGS_PREFIX).val
    IN  IF ~HasSlash(s) THEN Err("FAIL")
        ELSE
        LET mid == FindSlash(s)
            thing_name == SubSeq(s, 1, mid)
            rest == Drop(s, mid)
        IN  IF ~IsOk(is_valid_thing_name(thing_name)) THEN is_valid_thing_name(thing_name)
            ELSE IF ~IsOk(is_valid_bridge(rest, TUNNELS_API_BRIDGE))
                 THEN is_valid_bridge(rest, TUNNELS_API_BRIDGE)
            ELSE IF is_valid_bridge(rest, TUNNELS_API_BRIDGE).val = API_CHANGED
                 THEN Ok(<<>>)
            ELSE Err("NoMatch")

---------------------------------------------------------------------------
(* lib.rs                                                                  *)

TopicType == {"Other", "NamedShadow", "Shadow", "Jobs", "Defender", "Tunneling"}

\* classify_bridge with the classic shadow bridge tested before the named one
classify_bridge_shadow_first(s) ==
    IF StartsWith(s, SHADOW_API_BRIDGE) THEN Ok("Shadow")
    ELSE IF StartsWith(s, NAMED_SHADOW_API_BRIDGE) THEN Ok("NamedShadow")
    ELSE IF StartsWith(s, JOBS_API_BRIDGE) THEN Ok("Jobs")
    ELSE IF StartsWith(s, DEFENDER_API_BRIDGE) THEN Ok("Defender")
    ELSE IF StartsWith(s, TUNNELS_API_BRIDGE) THEN Ok("Tunneling")
    ELSE Err("NoMatch")

\* The bridge tests of match_topic_type, in their order, on the text after the thing name
classify_bridge(s) ==
    IF StartsWith(s, NAMED_SHADOW_API_BRIDGE) THEN Ok("NamedShadow")
    ELSE IF StartsWith(s, SHADOW_API_BRIDGE) THEN Ok("Shadow")
    ELSE IF StartsWith(s, JOBS_API_BRIDGE) THEN Ok("Jobs")
    ELSE IF StartsWith(s, DEFENDER_API_BRIDGE) THEN Ok("Defender")
    ELSE IF StartsWith(s, TUNNELS_API_BRIDGE) THEN Ok("Tunneling")
    ELSE Err("NoMatch")

match_topic_type(topic) ==
    IF ~IsOk(is_valid_mqtt_topic(topic)) THEN is_valid_mqtt_topic(topic)
    ELSE IF ~IsOk(is_valid_prefix(topic, AWS_THINGS_PREFIX))
         THEN is_valid_prefix(topic, AWS_THINGS_PREFIX)
    ELSE
    LET s == is_valid_prefix(topic, AWS_THINGS_PREFIX).val
    IN  IF ~HasSlash(s) THEN Err("NoMatch")
        ELSE
        LET mid == FindSlash(s)
            thing_name == SubSeq(s, 1, mid)
            rest == Drop(s, mid)
        IN  IF ~IsOk(is_valid_thing_name(thing_name)) THEN is_valid_thing_name(thing_name)
            ELSE classify_bridge(rest)

---------------------------------------------------------------------------
(* backoff_algo.rs                                                         *)

\* The width of usize; 16 bits is the narrowest usize Rust targets have
USIZE_BITS == 16

USIZE_MOD == 2 ^ USIZE_BITS

USIZE_MAX == USIZE_MOD - 1

BackoffAlgorithm(base, max, rand) ==
    [base |-> base, max |-> max, power |-> base, value |-> base, rand |-> rand]

get(self) == self.value

unwrap_or_default(opt) == IF opt = None THEN 0 ELSE opt[1]

NotCalled == [kind |-> "NotCalled", val |-> 0]

RetSome(v) == [kind |-> "Some", val |-> v]

RetNone == [kind |-> "None", val |-> 0]

RetPanic == [kind |-> "Panic", val |-> 0]

\* next(): the generator after the call and what the call returned.  The
\* remainder panics on a zero divisor in every build; an overflowing + or +=
\* panics when the build checks overflow and wraps when it does not.
next(self, overflow_checks) ==
    IF self.power = 0 THEN [self |-> self, ret |-> RetPanic]
    ELSE
    LET sum   == self.power + (unwrap_or_default(self.rand) % self.power)
        dbl   == self.power + self.power
        self1 == [self EXCEPT !.value = sum % USIZE_MOD]
        self2 == [self1 EXCEPT !.power = dbl % USIZE_MOD]
    IN  IF sum > USIZE_MAX /\ overflow_checks THEN [self |-> self, ret |-> RetPanic]
        ELSE IF dbl > USIZE_MAX /\ overflow_checks THEN [self |-> self1, ret |-> RetPanic]
        ELSE [self |-> self2,
              ret  |-> IF self2.value <= self2.max THEN RetSome(self2.value) ELSE RetNone]

---------------------------------------------------------------------------
(* The callers' inputs                                                     *)

\* The most '/'-separated segments an incoming topic carries after its bridge
MaxTokens == 17

chloe == <<"c", "h", "l", "o", "e">>

common == <<"c", "o", "m", "m", "o", "n">>

bogus == <<"b", "o", "g", "u", "s">>

example_job_01 == <<"e", "x", "a", "m", "p", "l", "e", "-", "j", "o", "b", "-", "0", "1">>

\* Device names a caller passes: valid ones up to the longest, then invalid ones
GoodThingNames ==
    {chloe, <<"-", "_", "0", "9", "A", "Z", "a", "z", ":">>,
     Rep("t", THINGNAME_MAX_LENGTH - 28), Rep("t", THINGNAME_MAX_LENGTH - 1)}

BadThingNames ==
    {<<>>, Rep("t", THINGNAME_MAX_LENGTH), <<"c", "h", " ", "l", "o", "e">>,
     <<"n", "/", "s", "h", "a", "d", "o", "w", "/", "z">>}

ThingNames == GoodThingNames \cup BadThingNames

GoodShadowNames == {common, Rep("s", SHADOW_NAME_LENGTH_MAX - 1)}

BadShadowNames ==
    {<<>>, Rep("s", SHADOW_NAME_LENGTH_MAX), <<"c", "o", "#">>, <<"a", "/", "b">>}

ShadowNames == GoodShadowNames \cup BadShadowNames

GoodJobIds == {example_job_01, Rep("j", JOBID_MAX_LENGTH - 1)}

BadJobIds ==
    {<<>>, Rep("j", JOBID_MAX_LENGTH), Rep("j", JOBID_MAX_LENGTH + 1),
     <<"i", "d", ":", "1">>, <<"+">>}

JobIds == GoodJobIds \cup BadJobIds \cup {API_JOBID_NEXT}

RECURSIVE Join(_)
\* The segments of v with a '/' between them
Join(v) == IF Len(v) = 1 THEN v[1] ELSE v[1] \o <<"/">> \o Join(Tail(v))

ShadowOps == {OP_GET, OP_DELETE, OP_UPDATE, bogus}

ShadowSuffixes == {ACCEPTED, REJECTED, <<"d", "o", "c", "u", "m", "e", "n", "t", "s">>,
                   <<"d", "e", "l", "t", "a">>, bogus}

OpTokens(ops, suffixes) ==
    {<<o>> : o \in ops} \cup {<<o, x>> : o \in ops, x \in suffixes}

\* What follows the device name in an incoming topic, with the shadow name or
\* job id it was written with: [rest, ident]
ShadowRests ==
    {[rest |-> SHADOW_API_BRIDGE \o Join(v), ident |-> None] :
        v \in OpTokens(ShadowOps, ShadowSuffixes)}
    \cup
    {[rest |-> SHADOW_API_BRIDGE \o seg \o <<"/">> \o n \o <<"/">> \o Join(v),
      ident |-> Some(n)] :
        seg \in {<<"n", "a", "m", "e">>, <<"o", "t", "h", "e", "r">>},
        n \in ShadowNames \ {Rep("s", SHADOW_NAME_LENGTH_MAX - 1)},
        v \in OpTokens({OP_GET, OP_UPDATE, bogus}, {ACCEPTED, <<"d", "e", "l", "t", "a">>})}

JobsRests ==
    {[rest |-> JOBS_API_BRIDGE \o Join(v), ident |-> None] :
        v \in OpTokens({API_JOBSCHANGED, API_NEXTJOBCHANGED, API_GETPENDING, API_STARTNEXT,
                        API_UPDATE, <<>>, bogus}, {ACCEPTED, REJECTED, bogus})}
    \cup
    {[rest |-> JOBS_API_BRIDGE \o id \o <<"/">> \o Join(<<o, x>>), ident |-> Some(id)] :
        id \in JobIds, o \in {API_DESCRIBE, API_UPDATE, API_STARTNEXT},
        x \in {ACCEPTED, REJECTED, bogus}}

DefenderRests ==
    {[rest |-> API_BRIDGE \o Join(v), ident |-> None] :
        v \in OpTokens({API_JSON_FORMAT, API_CBOR_FORMAT, bogus}, {ACCEPTED, REJECTED, bogus})}

TunnelRests ==
    {[rest |-> TUNNELS_API_BRIDGE \o Join(v), ident |-> None] :
        v \in OpTokens({API_CHANGED, bogus}, {ACCEPTED})}

\* Topics with many segments after the bridge, up to MaxTokens
LongRests ==
    {[rest |-> b \o Join([i \in 1..n |-> OP_GET]), ident |-> None] :
        b \in {SHADOW_API_BRIDGE, JOBS_API_BRIDGE, API_BRIDGE, TUNNELS_API_BRIDGE},
        n \in {5, MaxTokens - 1, MaxTokens}}

OtherRests ==
    {[rest |-> r, ident |-> None] :
        r \in {<<"/">>, <<"/", "s", "h", "a", "d", "o", "w">>,
               <<"/", "o", "t", "a", "/", "g", "e", "t">>,
               <<"/", "d", "e", "f", "e", "n", "d", "e", "r", "/", "j", "s", "o", "n">>}}

Rests == ShadowRests \cup JobsRests \cup DefenderRests \cup TunnelRests
         \cup LongRests \cup OtherRests

\* The rests an invalid device name is received with
FewRests ==
    {r \in Rests : r.rest \in {SHADOW_API_BRIDGE \o OP_GET,
                               NAMED_SHADOW_API_BRIDGE \o common \o <<"/">> \o OP_GET,
                               JOBS_API_BRIDGE \o API_JOBSCHANGED,
                               API_BRIDGE \o API_JSON_FORMAT \o SUFFIX_ACCEPTED,
                               TUNNELS_API_BRIDGE \o API_CHANGED,
                               <<"/", "o", "t", "a", "/", "g", "e", "t">>}}

\* Strings that are not of the form prefix, device name, rest
StrayTopics ==
    {<<>>, <<"h", "e", "l", "l", "o", "/", "w", "o", "r", "l", "d">>,
     AWS_THINGS_PREFIX, AWS_THINGS_PREFIX \o chloe,
     <<"$", "a", "w", "s", "/", "t", "h", "i", "n", "g", "/">> \o chloe \o SHADOW_API_BRIDGE
        \o OP_GET}

\* The character and the lengths incoming topics are padded to
FillChar == "x"

FillLengths == {MQTT_TOPIC_LENGTH_MAX - 1, MQTT_TOPIC_LENGTH_MAX}

\* The string a wire descriptor stands for
Str(w) == w.text \o Rep(FillChar, w.fill)

StrLen(w) == Len(w.text) + w.fill

NoCall == [fn |-> "", type |-> "", thing |-> <<>>, ident |-> None, ret |-> Err("")]

NoWire == [text |-> <<>>, fill |-> 0, from |-> "", thing |-> <<>>, rest |-> <<>>,
           ident |-> None]

NoParse == [fn |-> "", ret |-> Err("")]

NoCheck == [fn |-> "", arg |-> <<>>, ret |-> Err("")]

NoGen == BackoffAlgorithm(0, 0, None)

---------------------------------------------------------------------------
(* The topic codecs: a caller assembles a topic or receives one, then parses it *)

codec_vars == <<asm, wire, parse, check>>

backoff_vars == <<bfa, bret, calls, checked>>

Init ==
    /\ pc = "ready"
    /\ asm = NoCall
    /\ wire = NoWire
    /\ parse = NoParse
    /\ check = NoCheck
    /\ bfa = NoGen
    /\ bret = NotCalled
    /\ calls = 0
    /\ checked = FALSE

\* The record of an assemble call
AsmCall(fn, type, thing, ident, ret) ==
    [fn |-> fn, type |-> type, thing |-> thing, ident |-> ident, ret |-> ret]

\* The topic an assemble call that returned ret puts in flight, if any
Assembled(fn, thing, ident, ret) ==
    IF IsOk(ret)
    THEN [text |-> ret.val, fill |-> 0, from |-> fn, thing |-> thing,
          rest |-> Drop(ret.val, Len(AWS_THINGS_PREFIX) + Len(thing)), ident |-> ident]
    ELSE NoWire

\* Where the caller is after an assemble call: a panic ends it
AfterAssemble(ret) ==
    IF IsOk(ret) THEN "assembled" ELSE IF ret = Panic THEN "panicked" ELSE "failed"

ShadowAssembleTopic ==
    \E type \in ShadowTopic, thing \in ThingNames,
       named \in {None} \cup {Some(n) : n \in ShadowNames} :
        LET ret == shadow_assemble_topic(type, thing, named)
        IN  /\ pc = "ready"
            /\ asm' = AsmCall("shadow::assemble_topic", type, thing, named, ret)
            /\ wire' = Assembled("shadow::assemble_topic", thing, named, ret)
            /\ pc' = AfterAssemble(ret)
            /\ UNCHANGED <<parse, check, backoff_vars>>

DefenderGetTopic ==
    \E api \in DefenderTopic, thing \in ThingNames :
        LET ret == defender_get_topic(thing, api)
        IN  /\ pc = "ready"
            /\ asm' = AsmCall("defender::get_topic", api, thing, None, ret)
            /\ wire' = Assembled("defender::get_topic", thing, None, ret)
            /\ pc' = AfterAssemble(ret)
            /\ UNCHANGED <<parse, check, backoff_vars>>

JobsGetTopic ==
    \E api \in JobsTopic, thing \in ThingNames :
        LET ret == jobs_get_topic(thing, api)
        IN  /\ pc = "ready"
            /\ asm' = AsmCall("jobs::get_topic", api, thing, None, ret)
            /\ wire' = Assembled("jobs::get_topic", thing, None, ret)
            /\ pc' = AfterAssemble(ret)
            /\ UNCHANGED <<parse, check, backoff_vars>>

JobsGetPending ==
    \E thing \in ThingNames :
        LET ret == get_pending(thing)
        IN  /\ pc = "ready"
            /\ asm' = AsmCall("jobs::get_pending", "", thing, None, ret)
            /\ wire' = Assembled("jobs::get_pending", thing, None, ret)
            /\ pc' = AfterAssemble(ret)
            /\ UNCHANGED <<parse, check, backoff_vars>>

JobsStartNext ==
    \E thing \in ThingNames :
        LET ret == start_next(thing)
        IN  /\ pc = "ready"
            /\ asm' = AsmCall("jobs::start_next", "", thing, None, ret)
            /\ wire' = Assembled("jobs::start_next", thing, None, ret)
            /\ pc' = AfterAssemble(ret)
            /\ UNCHANGED <<parse, check, backoff_vars>>

JobsDescribe ==
    \E thing \in ThingNames, id \in JobIds :
        LET ret == describe(thing, id)
        IN  /\ pc = "ready"
            /\ asm' = AsmCall("jobs::describe", "", thing, Some(id), ret)
            /\ wire' = Assembled("jobs::describe", thing, Some(id), ret)
            /\ pc' = AfterAssemble(ret)
            /\ UNCHANGED <<parse, check, backoff_vars>>

JobsUpdate ==
    \E thing \in ThingNames, id \in JobIds :
        LET ret == update(thing, id)
        IN  /\ pc = "ready"
            /\ asm' = AsmCall("jobs::update", "", thing, Some(id), ret)
            /\ wire' = Assembled("jobs::update", thing, Some(id), ret)
            /\ pc' = AfterAssemble(ret)
            /\ UNCHANGED <<parse, check, backoff_vars>>

\* A topic arrives from the transport
Receive ==
    /\ pc = "ready"
    /\ \/ \E thing \in GoodThingNames, r \in Rests :
            wire' = [text |-> AWS_THINGS_PREFIX \o thing \o r.rest, fill |-> 0,
                     from |-> "transport", thing |-> thing, rest |-> r.rest,
                     ident |-> r.ident]
       \/ \E thing \in BadThingNames, r \in FewRests :
            wire' = [text |-> AWS_THINGS_PREFIX \o thing \o r.rest, fill |-> 0,
                     from |-> "transport", thing |-> thing, rest |-> r.rest,
                     ident |-> r.ident]
       \/ \E thing \in {chloe, <<"c", "h", " ", "l", "o", "e">>}, r \in FewRests,
             n \in FillLengths :
            wire' = [text |-> AWS_THINGS_PREFIX \o thing \o r.rest,
                     fill |-> n - Len(AWS_THINGS_PREFIX \o thing \o r.rest),
                     from |-> "transport", thing |-> thing,
                     rest |-> r.rest, ident |-> r.ident]
       \/ \E t \in StrayTopics :
            wire' = [text |-> t, fill |-> 0, from |-> "stray", thing |-> <<>>,
                     rest |-> <<>>, ident |-> None]
    /\ pc' = "received"
    /\ UNCHANGED <<asm, parse, check, backoff_vars>>

\* Where the caller is after a parse call: a panic ends it
AfterParse(ret) == IF ret = Panic THEN "panicked" ELSE "parsed"

ShadowMatchTopic ==
    /\ pc \in {"assembled", "received"}
    /\ parse' = [fn |-> "shadow::match_topic", ret |-> shadow_match_topic(Str(wire))]
    /\ pc' = AfterParse(parse'.ret)
    /\ UNCHANGED <<asm, wire, check, backoff_vars>>

JobsMatchTopic ==
    /\ pc \in {"assembled", "received"}
    /\ parse' = [fn |-> "jobs::match_topic", ret |-> jobs_match_topic(Str(wire))]
    /\ pc' = AfterParse(parse'.ret)
    /\ UNCHANGED <<asm, wire, check, backoff_vars>>

DefenderMatchTopic ==
    /\ pc \in {"assembled", "received"}
    /\ parse' = [fn |-> "defender::match_topic", ret |-> defender_match_topic(Str(wire))]
    /\ pc' = AfterParse(parse'.ret)
    /\ UNCHANGED <<asm, wire, check, backoff_vars>>

TunnelingMatchTopic ==
    /\ pc \in {"assembled", "received"}
    /\ parse' = [fn |-> "tunneling::match_topic", ret |-> tunneling_match_topic(Str(wire))]
    /\ pc' = AfterParse(parse'.ret)
    /\ UNCHANGED <<asm, wire, check, backoff_vars>>

MatchTopicType ==
    /\ pc \in {"assembled", "received"}
    /\ parse' = [fn |-> "match_topic_type", ret |-> match_topic_type(Str(wire))]
    /\ pc' = AfterParse(parse'.ret)
    /\ UNCHANGED <<asm, wire, check, backoff_vars>>

\* The strings the validators are called on
Identifiers == ThingNames \cup ShadowNames \cup JobIds

IsValidThingName ==
    /\ pc = "ready"
    /\ \E s \in Identifiers :
          check' = [fn |-> "is_valid_thing_name", arg |-> s, ret |-> is_valid_thing_name(s)]
    /\ pc' = "validated"
    /\ UNCHANGED <<asm, wire, parse, backoff_vars>>

IsValidShadowName ==
    /\ pc = "ready"
    /\ \E s \in Identifiers :
          check' = [fn |-> "is_valid_shadow_name", arg |-> s, ret |-> is_valid_shadow_name(s)]
    /\ pc' = "validated"
    /\ UNCHANGED <<asm, wire, parse, backoff_vars>>

IsValidJobId ==
    /\ pc = "ready"
    /\ \E s \in Identifiers :
          check' = [fn |-> "is_valid_job_id", arg |-> s, ret |-> is_valid_job_id(s)]
    /\ pc' = "validated"
    /\ UNCHANGED <<asm, wire, parse, backoff_vars>>

\* The (operation, suffix) tokens a codec writes for a message type
ShadowOpSuffix ==
    /\ pc = "ready"
    /\ \E t \in ShadowTopic :
          check' = [fn |-> "shadow::op", arg |-> t,
                    ret |-> [op |-> shadow_op(t), suffix |-> shadow_suffix(t)]]
    /\ pc' = "validated"
    /\ UNCHANGED <<asm, wire, parse, backoff_vars>>

JobsOpSuffix ==
    /\ pc = "ready"
    /\ \E t \in JobsTopic :
          check' = [fn |-> "jobs::op", arg |-> t,
                    ret |-> [op |-> jobs_op(t), suffix |-> jobs_suffix(t)]]
    /\ pc' = "validated"
    /\ UNCHANGED <<asm, wire, parse, backoff_vars>>

DefenderOpSuffix ==
    /\ pc = "ready"
    /\ \E t \in DefenderTopic :
          check' = [fn |-> "defender::op", arg |-> t,
                    ret |-> [op |-> defender_op(t), suffix |-> defender_suffix(t)]]
    /\ pc' = "validated"
    /\ UNCHANGED <<asm, wire, parse, backoff_vars>>

Next ==
    \/ ShadowAssembleTopic
    \/ DefenderGetTopic
    \/ JobsGetTopic
    \/ JobsGetPending
    \/ JobsStartNext
    \/ JobsDescribe
    \/ JobsUpdate
    \/ Receive
    \/ ShadowMatchTopic
    \/ JobsMatchTopic
    \/ DefenderMatchTopic
    \/ TunnelingMatchTopic
    \/ MatchTopicType
    \/ IsValidThingName
    \/ IsValidShadowName
    \/ IsValidJobId
    \/ ShadowOpSuffix
    \/ JobsOpSuffix
    \/ DefenderOpSuffix

Spec == Init /\ [][Next]_vars

---------------------------------------------------------------------------
(* The backoff generator: a caller creates one and calls next() on it      *)

\* The most calls of next() on one generator
MaxCalls == USIZE_BITS + 2

Bases == {0, 1, 3, 8}

Maxes == {16, 64, 2 ^ (USIZE_BITS - 1), USIZE_MAX}

Rands == {None, Some(0), Some(5), Some(USIZE_MAX)}

InitBackoff ==
    /\ pc = "ready"
    /\ asm = NoCall
    /\ wire = NoWire
    /\ parse = NoParse
    /\ check = NoCheck
    /\ bfa = NoGen
    /\ bret = NotCalled
    /\ calls = 0
    /\ checked \in BOOLEAN

New ==
    /\ pc = "ready"
    /\ \E base \in Bases, max \in Maxes, rand \in Rands :
          bfa' = BackoffAlgorithm(base, max, rand)
    /\ pc' = "live"
    /\ UNCHANGED <<codec_vars, bret, calls, checked>>

CallNext ==
    /\ pc = "live"
    /\ calls < MaxCalls
    /\ bfa' = next(bfa, checked).self
    /\ bret' = next(bfa, checked).ret
    /\ calls' = calls + 1
    /\ pc' = IF next(bfa, checked).ret = RetPanic THEN "panicked" ELSE "live"
    /\ UNCHANGED <<codec_vars, checked>>

NextBackoff == New \/ CallNext

SpecBackoff == InitBackoff /\ [][NextBackoff]_vars

\* A caller that goes on calling next() for as long as it can
SpecBackoffFair == InitBackoff /\ [][NextBackoff]_vars /\ WF_vars(CallNext)

---------------------------------------------------------------------------
(* Properties of the topic codecs, checked under Spec                      *)

\* A device or shadow name as the naming rules state it: non-empty, shorter
\* than max_len, every character in [A-Za-z0-9_:-]
WellFormedName(s, max_len) ==
    /\ 0 < Len(s)
    /\ Len(s) < max_len
    /\ \A i \in 1..Len(s) : s[i] \in Digit \cup Upper \cup Lower \cup {"_", ":", "-"}

\* A job id as the naming rules state it: non-empty, shorter than 64, every
\* character in [A-Za-z0-9_-]
WellFormedJobId(s) ==
    /\ 0 < Len(s)
    /\ Len(s) < 64
    /\ \A i \in 1..Len(s) : s[i] \in Digit \cup Upper \cup Lower \cup {"_", "-"}

\* The shadow-name option of a call is None or Some well-formed name
WellFormedNamed(named) == named = None \/ WellFormedName(named[1], 64)

\* C1: shadow round trip.  For every shadow message type, every valid device
\* name and every shadow-name option (None or Some valid name),
\* assemble_topic returns Ok(t), and match_topic(t) returns Ok with the same
\* thing_name, shadow_name and shadow_op.
C1_ShadowRoundTrip ==
    (/\ asm.fn = "shadow::assemble_topic"
     /\ WellFormedName(asm.thing, 128)
     /\ WellFormedNamed(asm.ident))
    => /\ IsOk(asm.ret)
       /\ parse.fn = "shadow::match_topic"
          => /\ IsOk(parse.ret)
             /\ parse.ret.val.thing_name = asm.thing
             /\ parse.ret.val.shadow_name = asm.ident
             /\ parse.ret.val.shadow_op = asm.type

\* C2: defender round trip.  For every defender message type and every valid
\* device name, get_topic returns Ok(t), and match_topic(t) returns Ok with
\* the same thing_name and api; the suffix-less json and cbor topics parse
\* back to the Publish variants.
C2_DefenderRoundTrip ==
    (/\ asm.fn = "defender::get_topic"
     /\ WellFormedName(asm.thing, 128))
    => /\ IsOk(asm.ret)
       /\ parse.fn = "defender::match_topic"
          => /\ IsOk(parse.ret)
             /\ parse.ret.val.thing_name = asm.thing
             /\ parse.ret.val.api = asm.type

PerJobTopic == {"DescribeSuccess", "DescribeFailed", "UpdateSuccess", "UpdateFailed"}

\* C3: jobs round trip.  For every jobs message type and every valid device
\* name, get_topic returns Ok(t), and match_topic(t) returns Ok with the same
\* thing_name and api; for the four per-job types t carries the segment "+"
\* right after "/jobs/" and the parsed id is Some("+"), for the other six the
\* parsed id is None.
C3_JobsRoundTrip ==
    (/\ asm.fn = "jobs::get_topic"
     /\ WellFormedName(asm.thing, 128))
    => /\ IsOk(asm.ret)
       /\ asm.type \in PerJobTopic
          => StartsWith(asm.ret.val,
                        <<"$", "a", "w", "s", "/", "t", "h", "i", "n", "g", "s", "/">>
                        \o asm.thing \o <<"/", "j", "o", "b", "s", "/", "+", "/">>)
       /\ parse.fn = "jobs::match_topic"
          => /\ IsOk(parse.ret)
             /\ parse.ret.val.thing_name = asm.thing
             /\ parse.ret.val.api = asm.type
             /\ parse.ret.val.id = IF asm.type \in PerJobTopic THEN Some(<<"+">>) ELSE None

\* A per-job topic of the longest valid device name has made the round trip
C3_Witness ==
    /\ asm.fn = "jobs::get_topic"
    /\ asm.type = "UpdateFailed"
    /\ Len(asm.thing) = 127
    /\ parse.fn = "jobs::match_topic"
    /\ IsOk(parse.ret)
    /\ parse.ret.val.id = Some(<<"+">>)

\* The classifier's answer as the routing rule states it, for the text after
\* the device name
Route(rest) ==
    IF StartsWith(rest, <<"/", "s", "h", "a", "d", "o", "w", "/", "n", "a", "m", "e", "/">>)
    THEN Ok("NamedShadow")
    ELSE IF StartsWith(rest, <<"/", "s", "h", "a", "d", "o", "w", "/">>) THEN Ok("Shadow")
    ELSE IF StartsWith(rest, <<"/", "j", "o", "b", "s", "/">>) THEN Ok("Jobs")
    ELSE IF StartsWith(rest, <<"/", "d", "e", "f", "e", "n", "d", "e", "r", "/",
                               "m", "e", "t", "r", "i", "c", "s", "/">>)
    THEN Ok("Defender")
    ELSE IF StartsWith(rest, <<"/", "t", "u", "n", "n", "e", "l", "s", "/">>)
    THEN Ok("Tunneling")
    ELSE Err("NoMatch")

\* The topic in flight is "$aws/things/" <valid device name> <rest>, rest
\* starting with '/'
NamedThingTopic ==
    /\ wire.from = "transport"
    /\ WellFormedName(wire.thing, 128)
    /\ StartsWith(wire.rest, <<"/">>)

\* C6 as stated: for every topic "$aws/things/" <valid device name> <rest>
\* with rest starting with '/', match_topic_type returns the route of the
\* leading bridge of rest (NamedShadow, Shadow, Jobs, Defender, Tunneling,
\* else NoMatch), whatever follows the bridge.
C6_ClassifierRouting_AsStated ==
    (NamedThingTopic /\ parse.fn = "match_topic_type") => parse.ret = Route(wire.rest)

\* C6, amended: the same for every such topic shorter than 65535; a longer
\* one is answered Err(MqttTopicFailed) whatever its bridge.
C6_ClassifierRouting ==
    (NamedThingTopic /\ parse.fn = "match_topic_type")
    => IF StrLen(wire) < 65535
       THEN parse.ret = Route(wire.rest)
       ELSE parse.ret = Err("MqttTopicFailed")

\* A named-shadow topic whose operation token is not an operation was routed
C6_Witness ==
    /\ NamedThingTopic
    /\ StrLen(wire) < 65535
    /\ StartsWith(wire.rest, NAMED_SHADOW_API_BRIDGE \o common \o <<"/">> \o bogus)
    /\ parse.fn = "match_topic_type"
    /\ parse.ret = Ok("NamedShadow")

CodecParse == {"shadow::match_topic", "jobs::match_topic", "defender::match_topic",
               "tunneling::match_topic"}

\* The validators answer exactly by the naming rules, and every assemble call
\* given an invalid device or shadow name fails with the name's own error
C7_ValidateAndAssemble ==
    /\ check.fn = "is_valid_thing_name"
       => check.ret = IF WellFormedName(check.arg, 128) THEN Ok(<<>>)
                      ELSE Err("ThingnameParseFailed")
    /\ check.fn = "is_valid_shadow_name"
       => check.ret = IF WellFormedName(check.arg, 64) THEN Ok(<<>>)
                      ELSE Err("ShadownameParseFailed")
    /\ (asm.fn # "" /\ ~WellFormedName(asm.thing, 128))
       => asm.ret = Err("ThingnameParseFailed")
    /\ (/\ asm.fn = "shadow::assemble_topic"
        /\ WellFormedName(asm.thing, 128)
        /\ ~WellFormedNamed(asm.ident))
       => asm.ret = Err("ShadownameParseFailed")

\* The topic in flight was written with an invalid device name before its bridge
BadThingTopic ==
    /\ wire.from = "transport"
    /\ ~WellFormedName(wire.thing, 128)
    /\ parse.fn \in CodecParse

\* The topic in flight is a named-shadow topic written with an invalid shadow name
BadShadowTopic ==
    /\ wire.from = "transport"
    /\ WellFormedName(wire.thing, 128)
    /\ StartsWith(wire.rest, <<"/", "s", "h", "a", "d", "o", "w", "/", "n", "a", "m", "e", "/">>)
    /\ ~WellFormedNamed(wire.ident)
    /\ parse.fn = "shadow::match_topic"

BadJobId(id) == ~WellFormedJobId(id) /\ id # <<"$", "n", "e", "x", "t">>

\* C8: an empty, too long or ill-spelt job id makes jobs::describe and
\* jobs::update fail with JobsIdParseFailed ("$next" is permitted to
\* describe), and makes jobs::match_topic fail with JobsIdParseFailed on a
\* <job-id>/<op>/<suffix> topic; never FAIL, never success.
C8_JobIdRejection ==
    /\ (/\ asm.fn \in {"jobs::describe", "jobs::update"}
        /\ WellFormedName(asm.thing, 128)
        /\ \/ BadJobId(asm.ident[1])
           \/ asm.fn = "jobs::update" /\ ~WellFormedJobId(asm.ident[1]))
       => asm.ret = Err("JobsIdParseFailed")
    /\ (/\ wire.from = "transport"
        /\ WellFormedName(wire.thing, 128)
        /\ StartsWith(wire.rest, <<"/", "j", "o", "b", "s", "/">>)
        /\ wire.ident # None
        /\ BadJobId(wire.ident[1])
        /\ parse.fn = "jobs::match_topic")
       => parse.ret = Err("JobsIdParseFailed")

\* The capacity of the buffer each assemble function returns
Capacity(fn) ==
    CASE fn = "shadow::assemble_topic" -> 128 + 64 + 32
      [] fn = "jobs::get_topic" -> 128 + 64 + 32
      [] fn = "defender::get_topic" -> 128 + 32
      [] OTHER -> 128

\* The identifiers of the last assemble call are all valid
ValidIdentifiers ==
    /\ WellFormedName(asm.thing, 128)
    /\ asm.fn = "shadow::assemble_topic" => WellFormedNamed(asm.ident)
    /\ asm.fn = "jobs::describe"
       => WellFormedJobId(asm.ident[1]) \/ asm.ident[1] = <<"$", "n", "e", "x", "t">>
    /\ asm.fn = "jobs::update" => WellFormedJobId(asm.ident[1])

\* C9: every assemble operation given valid identifiers returns Ok with the
\* complete topic, which fits the capacity of its buffer, and never aborts;
\* given an invalid identifier it returns a typed Err.
C9_AssemblyFits ==
    asm.fn # ""
    => IF ValidIdentifiers
       THEN /\ IsOk(asm.ret)
            /\ Len(asm.ret.val) <= Capacity(asm.fn)
            /\ StartsWith(asm.ret.val, <<"$", "a", "w", "s", "/", "t", "h", "i", "n", "g",
                                         "s", "/">> \o asm.thing \o <<"/">>)
       ELSE asm.ret.kind = "Err" /\ asm.ret.err \in Error

\* C10: every parse (the four codecs' match_topic and match_topic_type), on
\* every input topic, returns Ok or one of the typed errors; none panics.
C10_ParseTotal ==
    parse.fn # "" => \/ parse.ret.kind = "Ok"
                     \/ parse.ret.kind = "Err" /\ parse.ret.err \in Error

\* The topic in flight is the common prefix, a valid device name and the
\* given bridge, with nothing padded after it
BridgedTopic(bridge) ==
    /\ wire.from = "transport"
    /\ wire.fill = 0
    /\ WellFormedName(wire.thing, 128)
    /\ StartsWith(wire.rest, bridge)

\* The '/'-separated tokens of the topic in flight after the given bridge
TokensAfter(bridge) == Split(Drop(wire.rest, Len(bridge)))

\* The token lists of the shadow grammar: an operation and its suffixes
KnownShadowTokens ==
    {<<o>> : o \in {OP_GET, OP_DELETE, OP_UPDATE}}
    \cup {<<o, x>> : o \in {OP_GET, OP_DELETE, OP_UPDATE}, x \in {ACCEPTED, REJECTED}}
    \cup {<<OP_UPDATE, <<"d", "o", "c", "u", "m", "e", "n", "t", "s">>>>,
          <<OP_UPDATE, <<"d", "e", "l", "t", "a">>>>}

\* The shadow tokens are of an accepted arity, with a valid shadow name where
\* they carry one, and their operation and suffix are not of the grammar
UnknownShadowTokens ==
    LET v == TokensAfter(SHADOW_API_BRIDGE)
    IN  \/ Len(v) \in {1, 2} /\ v \notin KnownShadowTokens
        \/ /\ Len(v) \in {3, 4}
           /\ WellFormedName(v[2], 64)
           /\ SubSeq(v, 3, Len(v)) \notin KnownShadowTokens

\* The jobs tokens are of an accepted arity and not of the grammar
UnknownJobsTokens ==
    LET v == TokensAfter(JOBS_API_BRIDGE)
    IN  \/ Len(v) = 1 /\ v[1] \notin {API_JOBSCHANGED, API_NEXTJOBCHANGED}
        \/ /\ Len(v) = 2
           /\ ~(v[1] \in {API_GETPENDING, API_STARTNEXT} /\ v[2] \in {ACCEPTED, REJECTED})
        \/ /\ Len(v) = 3
           /\ WellFormedJobId(v[1])
           /\ ~(v[2] \in {API_DESCRIBE, API_UPDATE} /\ v[3] \in {ACCEPTED, REJECTED})

\* The defender tokens are of the accepted arity and not of the grammar
UnknownDefenderTokens ==
    LET v == TokensAfter(API_BRIDGE)
    IN  /\ Len(v) = 2
        /\ ~(v[1] \in {API_JSON_FORMAT, API_CBOR_FORMAT} /\ v[2] \in {ACCEPTED, REJECTED})

\* C11: for each codec (shadow, jobs, defender), a topic with the common
\* prefix, a valid device name and the codec's bridge whose tokens have an
\* accepted arity but are no known (operation, suffix) pair fails to parse
\* with MessageTypeParseFailed, not with NoMatch.
C11_UnknownOperation ==
    /\ (/\ BridgedTopic(SHADOW_API_BRIDGE)
        /\ parse.fn = "shadow::match_topic"
        /\ UnknownShadowTokens)
       => parse.ret = Err("MessageTypeParseFailed")
    /\ (/\ BridgedTopic(JOBS_API_BRIDGE)
        /\ parse.fn = "jobs::match_topic"
        /\ UnknownJobsTokens)
       => parse.ret = Err("MessageTypeParseFailed")
    /\ (/\ BridgedTopic(API_BRIDGE)
        /\ parse.fn = "defender::match_topic"
        /\ UnknownDefenderTokens)
       => parse.ret = Err("MessageTypeParseFailed")


\* The (operation, suffix) tokens each codec writes for each message type
OpSuffix(fn, t) ==
    CASE fn = "shadow::op" -> [op |-> shadow_op(t), suffix |-> shadow_suffix(t)]
      [] fn = "jobs::op" -> [op |-> jobs_op(t), suffix |-> jobs_suffix(t)]
      [] fn = "defender::op" -> [op |-> defender_op(t), suffix |-> defender_suffix(t)]

\* The message types of the codec an op()/suffix() call belongs to
TopicsOf(fn) ==
    CASE fn = "shadow::op" -> ShadowTopic
      [] fn = "jobs::op" -> JobsTopic
      [] fn = "defender::op" -> DefenderTopic

\* The codec of the last assemble call parsed the topic assembled for "chloe"
ParsedOwnTopic ==
    \/ asm.fn = "shadow::assemble_topic" /\ parse.fn = "shadow::match_topic"
          /\ asm.ident \in {None, Some(common)}
    \/ asm.fn = "jobs::get_topic" /\ parse.fn = "jobs::match_topic"
    \/ asm.fn = "defender::get_topic" /\ parse.fn = "defender::match_topic"

\* C12: within each protocol, no two message types have the same
\* (operation, suffix) tokens by op() and suffix(), and every message type
\* is returned by the protocol's parse for some topic: the one the protocol
\* assembles for it.
C12_MessageTypeBijection ==
    /\ check.fn \in {"shadow::op", "jobs::op", "defender::op"}
       => \A other \in TopicsOf(check.fn) \ {check.arg} :
             OpSuffix(check.fn, other) # check.ret
    /\ (asm.thing = chloe /\ ParsedOwnTopic)
       => /\ IsOk(parse.ret)
          /\ (IF asm.fn = "shadow::assemble_topic" THEN parse.ret.val.shadow_op
              ELSE parse.ret.val.api) = asm.type

\* C13: whenever shadow::match_topic returns Ok(r), the topic is exactly the
\* one assemble_topic writes for r's operation, device name and shadow name;
\* so a shadow name is returned only when the segment after "/shadow/" is
\* the literal "name".
C13_ShadowGrammar ==
    (parse.fn = "shadow::match_topic" /\ IsOk(parse.ret))
    => LET r == parse.ret.val
           t == shadow_assemble_topic(r.shadow_op, r.thing_name, r.shadow_name)
       IN  /\ IsOk(t)
           /\ t.val = Str(wire)
           /\ r.shadow_name # None => StartsWith(wire.rest, NAMED_SHADOW_API_BRIDGE)

\* C14: for a topic with a single token after "/jobs/", jobs::match_topic
\* returns JobsChanged only for "notify" and NextJobChanged only for
\* "notify-next"; for every other token it returns an error.
C14_JobsBareOperation ==
    (/\ BridgedTopic(JOBS_API_BRIDGE)
     /\ parse.fn = "jobs::match_topic"
     /\ Len(TokensAfter(JOBS_API_BRIDGE)) = 1)
    => LET tok == TokensAfter(JOBS_API_BRIDGE)[1]
       IN  IF tok = <<"n", "o", "t", "i", "f", "y">>
           THEN parse.ret = Ok(ThingJobs(wire.thing, "JobsChanged", None))
           ELSE IF tok = <<"n", "o", "t", "i", "f", "y", "-", "n", "e", "x", "t">>
           THEN parse.ret = Ok(ThingJobs(wire.thing, "NextJobChanged", None))
           ELSE parse.ret.kind = "Err"

\* The bridge each codec parse looks for after the device name
OwnBridge(fn) ==
    CASE fn = "shadow::match_topic" -> <<"/", "s", "h", "a", "d", "o", "w", "/">>
      [] fn = "jobs::match_topic" -> <<"/", "j", "o", "b", "s", "/">>
      [] fn = "defender::match_topic" ->
            <<"/", "d", "e", "f", "e", "n", "d", "e", "r", "/", "m", "e", "t", "r", "i", "c", "s",
              "/">>
      [] fn = "tunneling::match_topic" -> <<"/", "t", "u", "n", "n", "e", "l", "s", "/">>

\* C15: every codec parse checks topic validity, common prefix, device name
\* and bridge in this order, and the first failing check decides the error:
\* an empty topic or one of 65535 or more gives MqttTopicFailed; else a topic
\* without the prefix gives NoMatch; else, with a '/' after the device
\* segment, an invalid device name gives ThingnameParseFailed; else a
\* remainder without the codec's own bridge gives RootParseFailed.
C15_CheckOrdering ==
    (parse.fn \in CodecParse /\ wire.from \in {"transport", "stray"})
    => IF StrLen(wire) = 0 \/ StrLen(wire) >= 65535
       THEN parse.ret = Err("MqttTopicFailed")
       ELSE IF ~StartsWith(wire.text,
                           <<"$", "a", "w", "s", "/", "t", "h", "i", "n", "g", "s", "/">>)
       THEN parse.ret = Err("NoMatch")
       ELSE LET s == Drop(wire.text, 12)
            IN  HasSlash(s)
                => LET device == SubSeq(s, 1, FindSlash(s))
                       remainder == Drop(s, FindSlash(s))
                   IN  IF ~WellFormedName(device, 128)
                       THEN parse.ret = Err("ThingnameParseFailed")
                       ELSE ~StartsWith(remainder, OwnBridge(parse.fn))
                            => parse.ret = Err("RootParseFailed")

\* The shadow parse was given a well-formed jobs topic and refused its bridge
C15_Witness ==
    /\ wire.from = "transport"
    /\ wire.thing = chloe
    /\ wire.rest = <<"/", "j", "o", "b", "s", "/", "n", "o", "t", "i", "f", "y">>
    /\ wire.fill = 0
    /\ parse.fn = "shadow::match_topic"
    /\ parse.ret = Err("RootParseFailed")

---------------------------------------------------------------------------
(* Properties of the backoff generator, checked under SpecBackoff          *)

\* The jitter of a generator: 0 when it has none
Jitter(self) == IF self.rand = None THEN 0 ELSE self.rand[1]

\* C4: for a generator created with base >= 1, the k-th call of next()
\* computes value = p + (jitter mod p) with p = base * 2^(k-1), and returns
\* Some(value) exactly when value <= max, None otherwise.
C4_StepValues ==
    (bfa.base >= 1 /\ calls >= 1)
    => LET p == bfa.base * 2 ^ (calls - 1)
           value == p + (Jitter(bfa) % p)
       IN  /\ bret.kind # "Panic"
           /\ get(bfa) = value
           /\ bret = IF value <= bfa.max THEN RetSome(value) ELSE RetNone

\* C5: once next() has returned None every later call returns None; get()
\* is base before the first call, and after a call it is the value the call
\* computed: the value returned, or one greater than max when None was
\* returned.
C5_ExhaustionTerminal ==
    [][/\ bret.kind = "None" => bret'.kind = "None"
       /\ (pc = "ready" /\ pc' = "live") => get(bfa') = bfa'.base
       /\ bret'.kind = "Some" => get(bfa') = bret'.val
       /\ bret'.kind = "None" => get(bfa') > bfa'.max]_vars

\* C16: for every generator created with base >= 1, any max and any jitter,
\* calling next() again and again returns None after finitely many calls,
\* and no call before that None fails.
C16_FiniteSequence ==
    (pc = "live" /\ calls = 0 /\ bfa.base >= 1) ~> (bret.kind = "None")

===========================================================================
